---- MODULE Spec2Model ----
(***************************************************************************)
(* A model of src/src/lib.js: the FilebaseClient operations storeCar,      *)
(* storeBlob, storeDirectory, store, status and delete, run as concurrent  *)
(* async calls of one JavaScript process against one remote object store.  *)
(*                                                                         *)
(* Every static method writes `this.bucket`, and `this` of a static method *)
(* called as FilebaseClient.m(...) is the class itself, so `this.bucket`   *)
(* is one cell shared by all calls: the variable thisBucket.               *)
(*                                                                         *)
(* The S3 transport (@aws-sdk/lib-storage Upload, S3Client), the stream    *)
(* (stream.Readable), the packer (ipfs-car pack) and the remote store are  *)
(* the environment: their steps are actions with nondeterministic outcome. *)
(***************************************************************************)
EXTENDS Integers, Sequences, FiniteSets, TLC

\* ------------------------------------------------------------------ bounds

\* Call slots: how many calls a behaviour keeps the records of.
NumSlots == 3
\* How many calls can be pending at the same time in the concurrent scenario.
MaxPending == 2
\* How many calls are started in one behaviour of the concurrent scenario.
MaxCalls == 3
\* The largest blob, in bytes.
MaxBlobSize == 4
\* The largest file of a directory, in bytes.
MaxFileSize == 1
\* The most files of a directory.
MaxFiles == 2
\* Ticks the transport delivers beyond the one it delivers per stored part.
MaxExtraTicks == 1
\* Failed part attempts the transport suffers in one behaviour.
MaxFaults == 2
\* A maxRetries option a caller passes to storeCar.
CallerRetries == 2
\* A maxAttempts a caller puts in an s3config of its own.
CallerAttempts == 1
\* Bytes of one part of the multi-part upload (the transport's part size).
PartSize == 3
\* Bytes the archive encoding adds to the payload (header and framing).
CarOverhead == 1

\* --------------------------------------------------------- program constants

\* lib.js:28
MAX_STORE_RETRIES == 5
\* lib.js:29
MAX_CONCURRENT_UPLOADS == 4
\* lib.js:230: `let storedBytes = 0.01`. Byte counts of the progress handler
\* are kept in hundredths of a byte, so 0.01 is 1.
StoredBytesInit == 1
\* Hundredths in one byte.
Scale == 100

\* ------------------------------------------------------------------- values

\* JavaScript `undefined` where a string is expected (bucket, tag, name).
Undef == "undefined"
\* JavaScript `null` for an object name that was not given.
Null == "null"

\* A JavaScript value whose type the code tests with typeof.
Num(n) == [t |-> "number", v |-> n]
UndefVal == [t |-> "undefined", v |-> 0]
TypeOf(x) == x.t

Buckets == {"b1", "b2"}
Slots == 1..NumSlots

\* A variant of Or that takes b whatever a is.
OrOfSecond(a, b) == b

\* `a || b` on strings: undefined and null are falsy.
Or(a, b) == IF a = Undef \/ a = Null THEN b ELSE a


\* ----------------------------------------------------------------- content

\* A CID: version 0 (lib.js:776 cidVersion: 0) and the digest of the bytes.
\* The digest is modelled by a name of the content: equal content, equal name.
Cid(d) == [version |-> 0, digest |-> d]

\* cid.toString(): the base58 text of a version 0 CID starts with Qm.
CidToString(cid) == "Qm" \o cid.digest

\* The same content's identifier as a version 1 text, which a remote store
\* may report instead of the version 0 text.
CidV1String(cid) == "bafy" \o cid.digest

RECURSIVE SizesText(_)
SizesText(files) ==
    IF files = <<>> THEN "" ELSE ToString(Head(files)) \o SizesText(Tail(files))

RECURSIVE SumSizes(_)
SumSizes(files) ==
    IF files = <<>> THEN 0 ELSE Head(files) + SumSizes(Tail(files))

\* Blobs and files are given by their size; a directory by its files' sizes.
Blobs == 0..MaxBlobSize
FileLists == UNION {[1..n -> 0..MaxFileSize] : n \in 0..MaxFiles}

\* packCar (lib.js:773-779) on one blob, not wrapped: pack puts the file's
\* block into the blockstore and returns the root and the lazy archive.
PackBlob(size) ==
    [root |-> Cid("F" \o ToString(size)),
     len |-> size + CarOverhead,
     blocks |-> 1]

\* packCar on a directory's files, wrapped: one block per file and the
\* directory's block.
PackFiles(files) ==
    [root |-> Cid("D" \o SizesText(files)),
     len |-> SumSizes(files) + CarOverhead * (Len(files) + 1),
     blocks |-> Len(files) + 1]

NoCar == [root |-> Cid(""), len |-> 0, blocks |-> 0]

\* A token record { name, description, image, decimals } as validateERC1155
\* sees it (lib.js:740): name, description, decimals: the typeof of the
\* property; image: the MIME type of the Blob, or "none" for what is no Blob.
TokenInput(name, description, image, decimals) ==
    [name |-> name, description |-> description, image |-> image,
     decimals |-> decimals]

NoToken == TokenInput("undefined", "undefined", "none", "undefined")

TokenInputs ==
    {TokenInput(n, d, i, k) :
        n \in {"string", "undefined"}, d \in {"string", "number"},
        i \in {"image/png", "video/mp4", "none"},
        k \in {"undefined", "number", "string"}}

\* image.type.startsWith('image/') (lib.js:755).
IsImageType(type) == Len(type) >= 6 /\ SubSeq(type, 1, 6) = "image/"

\* A variant of ValidateERC1155 without the test of decimals.
ValidateERC721(input) ==
    IF input.name # "string"
    THEN [throws |-> TRUE, warns |-> FALSE,
          err |-> "string property name identifying the asset is required"]
    ELSE IF input.description # "string"
    THEN [throws |-> TRUE, warns |-> FALSE,
          err |-> "string property description describing asset is required"]
    ELSE IF input.image = "none"
    THEN [throws |-> TRUE, warns |-> FALSE,
          err |-> "property image must be a Blob or File object"]
    ELSE [throws |-> FALSE, warns |-> ~IsImageType(input.image), err |-> ""]

\* validateERC1155 (lib.js:740-765): throws: it throws a TypeError, with
\* message err (the field's name without the quotes around it); warns: it
\* called console.warn.
ValidateERC1155(input) ==
    IF input.name # "string"
    THEN [throws |-> TRUE, warns |-> FALSE,
          err |-> "string property name identifying the asset is required"]
    ELSE IF input.description # "string"
    THEN [throws |-> TRUE, warns |-> FALSE,
          err |-> "string property description describing asset is required"]
    ELSE IF input.image = "none"
    THEN [throws |-> TRUE, warns |-> FALSE,
          err |-> "property image must be a Blob or File object"]
    ELSE IF input.decimals # "undefined" /\ input.decimals # "number"
    THEN [throws |-> TRUE, warns |-> ~IsImageType(input.image),
          err |-> "property decimals must be an integer value"]
    ELSE [throws |-> FALSE, warns |-> ~IsImageType(input.image), err |-> ""]

\* Token.Token.encode(input) (lib.js:481): the archive of the token's
\* metadata.json and its image.
EncodeToken(input) ==
    [root |-> Cid("T" \o input.image),
     len |-> 2 + 2 * CarOverhead,
     blocks |-> 2]

\* ----------------------------------------------------------------- services

\* A Service { endpoint, token, s3config, bucket } (lib.js:181). token: whether
\* a token is given, tokBucket: the bucket the token names (its third field),
\* s3config: whether an s3config is given, attempts: its maxAttempts,
\* bucket: the bucket field.
Service(token, tokBucket, s3config, attempts, bucket) ==
    [token |-> token, tokBucket |-> tokBucket, s3config |-> s3config,
     attempts |-> attempts, bucket |-> bucket]

\* A static call with { token }: no s3config, no bucket field.
TokenService(b) == Service(TRUE, b, FALSE, 0, Undef)

\* new FilebaseClient({ token }) (lib.js:132-147): the instance carries the
\* token, the token's bucket and an s3config with maxAttempts MAX_STORE_RETRIES.
ClientOfToken(b) == Service(TRUE, b, TRUE, MAX_STORE_RETRIES, b)

\* new FilebaseClient({ s3config }) (lib.js:127-131): the instance carries the
\* caller's s3config and no bucket (the constructor sets none on this path).
ClientOfConfig == Service(FALSE, Undef, TRUE, CallerAttempts, Undef)

\* A static call with { s3config, bucket }: the caller's own s3config.
ConfigService(b) == Service(FALSE, Undef, TRUE, CallerAttempts, b)

\* A service with neither token nor s3config.
EmptyService == Service(FALSE, Undef, FALSE, 0, Undef)

\* parseToken (lib.js:56-91) throws when the token names no bucket.
ParseTokenThrows(svc) == svc.tokBucket = Undef

\* The options of storeCar (lib.js:184): whether onStoredChunk and onComplete
\* are given, and maxRetries (0: not given).
Options(chunk, complete, retries) ==
    [onStoredChunk |-> chunk, onComplete |-> complete, maxRetries |-> retries]

NoOptions == Options(FALSE, FALSE, 0)

\* The head of storeCar, status and delete (lib.js:186-209, 326-349, 403-425):
\* the configuration the call works with. throws: the call throws, with err;
\* writes: this.bucket is assigned, to bucket; attempts: the s3config's
\* maxAttempts.
Configure(svc, retries) ==
    IF ~svc.s3config /\ svc.token
    THEN IF ParseTokenThrows(svc)
         THEN [throws |-> TRUE, err |-> "No Bucket Found", writes |-> FALSE,
               bucket |-> Undef, attempts |-> 0]
         ELSE [throws |-> FALSE, err |-> "", writes |-> TRUE,
               bucket |-> Or(svc.bucket, svc.tokBucket),
               attempts |-> IF retries # 0 THEN retries ELSE MAX_STORE_RETRIES]
    ELSE IF ~svc.s3config
         THEN [throws |-> TRUE, err |-> "s3config not defined", writes |-> TRUE,
               bucket |-> svc.bucket, attempts |-> 0]
         ELSE [throws |-> FALSE, err |-> "", writes |-> TRUE,
               bucket |-> svc.bucket, attempts |-> svc.attempts]

\* -------------------------------------------------------- the upload session

\* The parts the transport cuts an archive of len bytes into.
NumParts(len) == (len + PartSize - 1) \div PartSize
PartLen(len, p) == IF p < NumParts(len) THEN PartSize ELSE len - (p - 1) * PartSize

\* The bytes of the archive stream that part p is made of, by their offsets.
PartRange(len, p) == ((p - 1) * PartSize)..((p - 1) * PartSize + PartLen(len, p) - 1)

\* A blob whose archive has one part more than the uploads allowed at once.
ManyPartsBlob == PartSize * MAX_CONCURRENT_UPLOADS + 1 - CarOverhead

\* A variant of UploadMetadata: the archive's root as the cid tag.
UploadMetadataWithCid(car) == [import |-> Undef, cid |-> CidToString(car.root)]

\* params.Metadata of the Upload (lib.js:222-224): the object's metadata as
\* the map's value at `import` and at `cid` (Undef: no such key).
UploadMetadata(car) == [import |-> "car", cid |-> Undef]

\* A variant of NewUpload without a queueSize: every part may be sent at once.
NewUploadUnqueued(bucket, key, car, attempts) ==
    [bucket |-> bucket, key |-> key, metadata |-> UploadMetadata(car),
     total |-> car.len, root |-> car.root,
     queueSize |-> NumParts(car.len), maxAttempts |-> attempts,
     next |-> 1, inflight |-> {}, stored |-> {},
     tries |-> [p \in 1..NumParts(car.len) |-> 0],
     loaded |-> 0, state |-> "active", err |-> "", extra |-> 0]

\* new Upload({...}) (lib.js:216-228) on archive car for key, with the bucket
\* read from this.bucket at that moment: nothing sent yet. next: the next
\* part to read from the stream, inflight: parts being sent, stored: parts
\* the store holds, tries: attempts made per part, loaded: the transport's
\* bytes uploaded so far, state: of the session, err: what failed it,
\* extra: the ticks it delivered beyond one per stored part.
NewUpload(bucket, key, car, attempts) ==
    [bucket |-> bucket, key |-> key, metadata |-> UploadMetadata(car),
     total |-> car.len, root |-> car.root,
     queueSize |-> MAX_CONCURRENT_UPLOADS, maxAttempts |-> attempts,
     next |-> 1, inflight |-> {}, stored |-> {},
     tries |-> [p \in 1..NumParts(car.len) |-> 0],
     loaded |-> 0, state |-> "active", err |-> "", extra |-> 0]

NoUpload ==
    [bucket |-> Undef, key |-> Undef, metadata |-> [import |-> Undef, cid |-> Undef],
     total |-> 0, root |-> Cid(""), queueSize |-> 0, maxAttempts |-> 0,
     next |-> 1, inflight |-> {}, stored |-> {}, tries |-> <<>>,
     loaded |-> 0, state |-> "none", err |-> "", extra |-> 0]

\* ------------------------------------------- the progress handler's closure

\* lib.js:230-231 and the listener of lib.js:215. storedBytes and
\* progressBytes are the closure's variables, in hundredths of a byte;
\* listeners: the stream events onComplete is registered for. The other
\* fields record what the callbacks were given: calls and sum of
\* onStoredChunk's values and the least of them (least), the calls of
\* onComplete (completed), whether a tick came (ticked), and of the last tick:
\* its loaded value (tick), the loaded value of the tick before it (prev),
\* storedBytes before it (before), whether it called onStoredChunk (called)
\* and whether it threw (threw).
NewHandler(opts) ==
    [storedBytes |-> StoredBytesInit, progressBytes |-> StoredBytesInit,
     listeners |-> IF opts.onComplete THEN {"finish"} ELSE {},
     calls |-> 0, sum |-> 0, least |-> 0, completed |-> 0,
     ticked |-> FALSE, tick |-> UndefVal, prev |-> UndefVal, before |-> 0,
     called |-> FALSE, threw |-> FALSE]

NoHandler == NewHandler(NoOptions)

\* A variant of OnProgress without the typeof test: what is no number counts
\* as no bytes.
OnProgressUnchecked(h, chunk, loaded) ==
    LET delta == loaded.v * Scale - h.storedBytes
    IN  [h EXCEPT !.ticked = TRUE, !.tick = loaded,
                  !.prev = IF h.ticked THEN h.tick ELSE UndefVal,
                  !.before = h.storedBytes,
                  !.progressBytes = delta,
                  !.storedBytes = loaded.v * Scale,
                  !.called = chunk,
                  !.threw = FALSE,
                  !.calls = IF chunk THEN @ + 1 ELSE @,
                  !.sum = IF chunk THEN @ + delta ELSE @,
                  !.least = IF chunk /\ (h.calls = 0 \/ delta < @) THEN delta ELSE @]

\* The httpUploadProgress listener (lib.js:232-239) on a tick whose
\* progress.loaded is loaded; chunk: whether onStoredChunk was given.
OnProgress(h, chunk, loaded) ==
    LET seen == [h EXCEPT !.ticked = TRUE, !.tick = loaded,
                          !.prev = IF h.ticked THEN h.tick ELSE UndefVal,
                          !.before = h.storedBytes]
    IN  IF TypeOf(loaded) # "number"
        THEN [seen EXCEPT !.called = FALSE, !.threw = TRUE]
        ELSE LET delta == loaded.v * Scale - h.storedBytes
             IN  [seen EXCEPT !.progressBytes = delta,
                              !.storedBytes = loaded.v * Scale,
                              !.called = chunk,
                              !.threw = FALSE,
                              !.calls = IF chunk THEN @ + 1 ELSE @,
                              !.sum = IF chunk THEN @ + delta ELSE @,
                              !.least = IF chunk /\ (h.calls = 0 \/ delta < @)
                                        THEN delta ELSE @]

\* The events a stream.Readable emits when its source is used up. It is no
\* Writable: it never emits finish.
ReadableEndEvents == {"end", "close"}

\* readableStream.on('finish', onComplete) (lib.js:215): the calls of
\* onComplete when the stream emits events.
Emit(h, events) ==
    [h EXCEPT !.completed = @ + Cardinality(h.listeners \cap events)]

\* ------------------------------------------------------------ the remote store

\* What the store makes of an upload it completes. The store is outside the
\* program: it may tag the object with the version 0 text of the archive's
\* root ("v0"), with the version 1 text ("v1"), keep a metadata map without a
\* cid tag ("nocid") or no metadata map at all ("nometa"), and it may answer
\* a head request without a content length ("nolen") or without a
\* last-modified time ("nodate").
Variants == {"v0", "v1", "nocid", "nometa", "nolen", "nodate"}

\* The object the store holds after completing session u at time now. A cid
\* the upload's own metadata names is persisted as it is.
StoredObject(u, variant, now) ==
    [hasMeta |-> variant # "nometa",
     cid |-> IF variant \in {"nometa", "nocid"} THEN Undef
             ELSE IF u.metadata.cid # Undef THEN u.metadata.cid
             ELSE IF variant = "v1" THEN CidV1String(u.root)
             ELSE CidToString(u.root),
     len |-> IF variant = "nolen" THEN UndefVal ELSE Num(u.total),
     lm |-> IF variant = "nodate" THEN UndefVal ELSE Num(now)]

Target(bucket, key) == <<bucket, key>>

\* The answer to a head request: of an object, or not found.
Response(obj) ==
    [found |-> TRUE, hasMeta |-> obj.hasMeta, cid |-> obj.cid, len |-> obj.len,
     lm |-> obj.lm]

NotFound ==
    [found |-> FALSE, hasMeta |-> FALSE, cid |-> Undef, len |-> UndefVal,
     lm |-> UndefVal]

\* ------------------------------------------------------------------- results

NoRecord ==
    [cid |-> Undef, size |-> 0, deals |-> <<>>,
     pin |-> [cid |-> Undef, name |-> Undef, status |-> Undef, created |-> 0],
     created |-> 0]

\* A variant of HeadResult that returns the tag without testing for it.
HeadResultUntested(resp) == [throws |-> FALSE, err |-> "", val |-> resp.cid]

\* storeCar on the head response resp (lib.js:249-253).
HeadResult(resp) ==
    IF ~resp.hasMeta \/ resp.cid = Undef
    THEN [throws |-> TRUE, err |-> "No CID Returned from Remote", val |-> Undef]
    ELSE [throws |-> FALSE, err |-> "", val |-> resp.cid]

\* A variant of StatusResult that tests the cid tag only.
StatusResultOfTag(resp) ==
    IF ~resp.hasMeta \/ resp.cid = Undef
    THEN [throws |-> TRUE, err |-> "No CID Returned from Remote", rec |-> NoRecord]
    ELSE [throws |-> FALSE, err |-> "",
          rec |-> [cid |-> resp.cid, size |-> resp.len.v, deals |-> <<>>,
                   pin |-> [cid |-> resp.cid, name |-> resp.cid,
                            status |-> "pinned", created |-> resp.lm.v],
                   created |-> resp.lm.v]]

\* status on the head response resp (lib.js:359-385).
StatusResult(resp) ==
    IF ~resp.hasMeta \/ resp.cid = Undef
    THEN [throws |-> TRUE, err |-> "No CID Returned from Remote", rec |-> NoRecord]
    ELSE IF TypeOf(resp.len) # "number"
    THEN [throws |-> TRUE, err |-> "Invalid Content Length", rec |-> NoRecord]
    ELSE IF TypeOf(resp.lm) = "undefined"
    THEN [throws |-> TRUE, err |-> "Invalid Date", rec |-> NoRecord]
    ELSE [throws |-> FALSE, err |-> "",
          rec |-> [cid |-> resp.cid, size |-> resp.len.v, deals |-> <<>>,
                   pin |-> [cid |-> resp.cid, name |-> resp.cid,
                            status |-> "pinned", created |-> resp.lm.v],
                   created |-> resp.lm.v]]

\* ------------------------------------------------------------------ the state

VARIABLES
    \* per slot: the call in it. op: the operation, pc: where it is
    \* suspended, svc: its service, name: its objectName argument, cid: the
    \* cid argument of status and delete, blob and files: the content given,
    \* key, car, opts: storeCar's objectName, car and options, cidString:
    \* storeDirectory's local, head: the bucket of the head or delete request
    \* it sent, resp: the answer to its head request, out, val, rec, err: how
    \* it settled and with what, clean: no write or delete of the key it
    \* uploaded to since its head response, token: store's token record,
    \* warned: validateERC1155 warned of it.
    call,
    \* per slot: the Upload of the call
    up,
    \* per slot: the progress handler's closure and what the callbacks got
    hnd,
    \* per slot: the call's Blockstore: created, blocks put, times closed,
    \* and the reads of the archive (which reads the blocks) after a close
    bs,
    \* per slot: the requests the call sent to the store, by kind, and how
    \* many of them failed
    reqs,
    \* FilebaseClient.bucket: `this.bucket` of the static methods
    thisBucket,
    \* the store: the objects by <<bucket, key>>
    remote,
    \* the store's clock
    clock,
    \* the scenario: the inputs the calls are drawn from
    scn,
    \* what is left of the scenario's budgets: calls, faults
    left

vars == <<call, up, hnd, bs, reqs, thisBucket, remote, clock, scn, left>>

IdleCall ==
    [op |-> "none", pc |-> "idle", svc |-> EmptyService, name |-> Null,
     cid |-> Undef, blob |-> 0, files |-> <<>>, key |-> Undef, car |-> NoCar,
     opts |-> NoOptions, cidString |-> Undef, head |-> Undef,
     resp |-> NotFound, out |-> "pending", val |-> Undef, rec |-> NoRecord, err |-> "",
     clean |-> FALSE, token |-> NoToken, warned |-> FALSE]

\* The store's answer to a head request for <<bucket, key>>.
HeadObject(bucket, key) ==
    IF Target(bucket, key) \in DOMAIN remote
    THEN Response(remote[Target(bucket, key)]) ELSE NotFound

NoStore == [created |-> FALSE, puts |-> 0, closed |-> 0, late |-> 0]
NoReqs == [upload |-> 0, head |-> 0, delete |-> 0, failed |-> 0]

\* ------------------------------------------------------------- the scenarios

\* The single-call scenario: one call, of every kind of input the model has,
\* under its cid string, with a transport that may fail and may report any
\* progress.
Single ==
    [slots |-> {1},
     svcs |-> {TokenService("b1"), ClientOfToken("b2"), ClientOfConfig,
               ConfigService("b1"), TokenService(Undef), EmptyService},
     cars |-> {PackBlob(1), PackBlob(MaxBlobSize)},
     optss |-> {NoOptions, Options(TRUE, TRUE, 0),
                Options(TRUE, TRUE, CallerRetries)},
     blobs |-> {0, 1, MaxBlobSize},
     dirs |-> FileLists,
     names |-> {Null},
     cids |-> {CidToString(PackBlob(1).root)},
     variants |-> Variants,
     ticks |-> {UndefVal} \cup {Num(n) : n \in 0..PartSize},
     tokens |-> TokenInputs]

\* The concurrent scenario: up to MaxCalls calls in NumSlots slots, on two
\* services with different buckets, one used statically with its token, one a
\* client instance; an archive and a directory, under a name or under their
\* cid strings; a transport that does not fail.
Concurrent ==
    [slots |-> 1..MaxPending,
     svcs |-> {TokenService("b1"), ClientOfToken("b2")},
     cars |-> {PackBlob(1)},
     optss |-> {NoOptions},
     blobs |-> {},
     dirs |-> {<<1>>},
     names |-> {Null, "n1"},
     cids |-> {CidToString(PackFiles(<<1>>).root)},
     variants |-> {"v0", "v1"},
     ticks |-> {},
     tokens |-> {}]

\* The sequential scenario: a caller that awaits each call before it makes
\* the next, MaxCalls calls on two services with different buckets: a
\* directory stored under a name or under its cid string, looked up and
\* deleted under a name or the directory's cid string; a store that may leave
\* out any part of a head response; a transport that may lose a delete
\* request.
Sequence ==
    [slots |-> Slots,
     svcs |-> {TokenService("b1"), ClientOfToken("b2")},
     cars |-> {},
     optss |-> {NoOptions},
     blobs |-> {},
     dirs |-> {<<1>>},
     names |-> {Null, "n1"},
     cids |-> {CidToString(PackFiles(<<1>>).root)},
     variants |-> Variants,
     ticks |-> {},
     tokens |-> {}]

\* The scenario of a long upload: one storeCar call of an archive of more
\* parts than may be sent at once, and of a short one, with a transport that
\* may fail a part once.
Parts ==
    [slots |-> {1},
     svcs |-> {TokenService("b1")},
     cars |-> {PackBlob(ManyPartsBlob), PackBlob(1)},
     optss |-> {NoOptions, Options(TRUE, FALSE, 0)},
     blobs |-> {},
     dirs |-> {},
     names |-> {Null},
     cids |-> {},
     variants |-> {"v0"},
     ticks |-> {},
     tokens |-> {}]

Start(scenario, calls, faults) ==
    /\ call = [c \in Slots |-> IdleCall]
    /\ up = [c \in Slots |-> NoUpload]
    /\ hnd = [c \in Slots |-> NoHandler]
    /\ bs = [c \in Slots |-> NoStore]
    /\ reqs = [c \in Slots |-> NoReqs]
    /\ thisBucket = Undef
    /\ remote = <<>>
    /\ clock = 0
    /\ scn = scenario
    /\ left = [calls |-> calls, faults |-> faults]

Init == Start(Single, 1, MaxFaults)

InitConcurrent == Start(Concurrent, MaxCalls, 0)

InitSequence == Start(Sequence, MaxCalls, 1)

InitParts == Start(Parts, 1, 1)

\* ------------------------------------------------------------------- helpers

\* A slot a new call can take: one of the scenario's, holding no pending
\* call; of the slots never used, the first.
Free(c) ==
    /\ c \in scn.slots
    /\ call[c].pc \in {"idle", "done"}
    /\ call[c].pc = "idle" => \A d \in 1..(c - 1) : call[d].pc # "idle"
    /\ left.calls > 0

\* The call of slot c begins as rec: what the last call left in the slot goes.
Begin(c) ==
    /\ left' = [left EXCEPT !.calls = @ - 1]
    /\ UNCHANGED <<scn, clock>>

\* A variant of Throw without the finally: an error settles the call at once.
ThrowPastFinally(rec, err) == [rec EXCEPT !.pc = "done", !.out = "err", !.err = err]

\* storeCar throws err (or a request of it fails): storeBlob and
\* storeDirectory go on to their finally (lib.js:166, 275), storeCar settles.
Throw(rec, err) ==
    IF rec.op \in {"storeBlob", "storeDirectory"}
    THEN [rec EXCEPT !.pc = "finally", !.out = "err", !.err = err]
    ELSE [rec EXCEPT !.pc = "done", !.out = "err", !.err = err]

\* What storeBlob returns: storeCar's value (lib.js:163-165).
StoreBlobValue(cidString, stored) == stored

\* A variant of StoreDirectoryValue: what storeCar returned.
StoreDirectoryValueOfTag(cidString, stored) == stored

\* What storeDirectory returns: its cidString (lib.js:273, 279).
StoreDirectoryValue(cidString, stored) == cidString

\* storeCar returns stored (lib.js:253).
Return(rec, stored) ==
    IF rec.op = "storeBlob"
    THEN [rec EXCEPT !.pc = "finally", !.out = "ok",
                     !.val = StoreBlobValue(rec.cidString, stored), !.clean = TRUE]
    ELSE IF rec.op = "storeDirectory"
    THEN [rec EXCEPT !.pc = "finally", !.out = "ok",
                     !.val = StoreDirectoryValue(rec.cidString, stored),
                     !.clean = TRUE]
    ELSE IF rec.op = "store"
    THEN [rec EXCEPT !.pc = "done", !.out = "ok", !.val = "token", !.clean = TRUE]
    ELSE [rec EXCEPT !.pc = "done", !.out = "ok", !.val = stored, !.clean = TRUE]

\* storeCar(svc, car, key, opts) up to its first suspension, `await
\* parallelUploads3.done()` (lib.js:186-241), in the call rec of slot c.
\* `await parseToken(token)` (lib.js:189) suspends too, but on a value that is
\* no promise and before anything shared is read or written, so the two
\* pieces are one step here.
EnterStoreCar(c, rec, svc, car, key, opts) ==
    LET cfg == Configure(svc, opts.maxRetries)
        b == IF cfg.writes THEN cfg.bucket ELSE thisBucket
        r == [rec EXCEPT !.key = key, !.car = car, !.opts = opts]
    IN  /\ thisBucket' = b
        /\ IF cfg.throws
           THEN /\ call' = [call EXCEPT ![c] = Throw(r, cfg.err)]
                /\ up' = [up EXCEPT ![c] = NoUpload]
                /\ hnd' = [hnd EXCEPT ![c] = NoHandler]
           ELSE /\ call' = [call EXCEPT ![c] = [r EXCEPT !.pc = "upload"]]
                /\ up' = [up EXCEPT ![c] = NewUpload(b, key, car, cfg.attempts)]
                /\ hnd' = [hnd EXCEPT ![c] = NewHandler(opts)]

\* ------------------------------------------------------------------- storeCar

\* A caller calls storeCar(service, car, objectName, options) (lib.js:180,
\* 617): with an archive it packed itself, under a name of its own or the
\* archive's cid string.
StoreCar(c, svc, car, key, opts) ==
    /\ Free(c)
    /\ Begin(c)
    /\ EnterStoreCar(c, [IdleCall EXCEPT !.op = "storeCar", !.svc = svc],
                     svc, car, key, opts)
    /\ bs' = [bs EXCEPT ![c] = NoStore]
    /\ reqs' = [reqs EXCEPT ![c] = NoReqs]
    /\ UNCHANGED remote

\* ------------------------------------- parallelUploads3.done() (lib.js:241)

\* The session of slot c is at work: the transport reads the stream and
\* sends parts only while it is; storeCar awaits it all the while.
Uploading(c) == up[c].state = "active"

\* A write or a delete of <<bucket, key>>: the calls that uploaded there and
\* have their head response are no longer clean.
Spoil(calls, bucket, key) ==
    [c \in Slots |->
        IF up[c].bucket = bucket /\ up[c].key = key
        THEN [calls[c] EXCEPT !.clean = FALSE] ELSE calls[c]]

\* The transport reads the next part off the stream and sends it, while
\* fewer than queueSize parts are in flight. Reading the last part uses the
\* stream up: the stream emits its end events. A session on no bucket is
\* refused.
PartStart(c) ==
    LET u == up[c]
        p == u.next
    IN  /\ Uploading(c)
        /\ p <= NumParts(u.total)
        /\ Cardinality(u.inflight) < u.queueSize
        /\ reqs' = [reqs EXCEPT ![c].upload = @ + 1,
                                ![c].failed = IF u.bucket \in Buckets THEN @ ELSE @ + 1]
        /\ bs' = [bs EXCEPT ![c].late = IF bs[c].closed > 0 THEN @ + 1 ELSE @]
        /\ hnd' = [hnd EXCEPT ![c] = IF p = NumParts(u.total)
                                      THEN Emit(@, ReadableEndEvents) ELSE @]
        /\ up' = [up EXCEPT ![c] =
                    IF u.bucket \in Buckets
                    THEN [u EXCEPT !.next = p + 1, !.inflight = @ \cup {p},
                                   !.tries[p] = 1]
                    ELSE [u EXCEPT !.next = p + 1, !.state = "failed",
                                   !.err = "NoSuchBucket"]]
        /\ UNCHANGED <<call, thisBucket, remote, clock, scn, left>>

\* An attempt of part p fails: the transport tries again, until maxAttempts
\* attempts are made; then the upload fails.
PartFail(c, p) ==
    LET u == up[c]
    IN  /\ Uploading(c)
        /\ p \in u.inflight
        /\ left.faults > 0
        /\ left' = [left EXCEPT !.faults = @ - 1]
        /\ IF u.tries[p] >= u.maxAttempts
           THEN /\ up' = [up EXCEPT ![c] = [u EXCEPT !.state = "failed",
                                                     !.err = "TransportError"]]
                /\ reqs' = [reqs EXCEPT ![c].failed = @ + 1]
           ELSE /\ up' = [up EXCEPT ![c] = [u EXCEPT !.tries[p] = @ + 1]]
                /\ reqs' = [reqs EXCEPT ![c].upload = @ + 1, ![c].failed = @ + 1]
        /\ UNCHANGED <<call, hnd, bs, thisBucket, remote, clock, scn>>

\* The upload emits httpUploadProgress with progress.loaded = loaded: the
\* listener runs; when it throws, the upload fails with what it threw.
Progress(c, u, loaded) ==
    LET h == OnProgress(hnd[c], call[c].opts.onStoredChunk, loaded)
    IN  /\ hnd' = [hnd EXCEPT ![c] = h]
        /\ up' = [up EXCEPT ![c] =
                    IF h.threw
                    THEN [u EXCEPT !.state = "failed",
                                   !.err = "Expected Number for Loaded Progress"]
                    ELSE u]

\* Part p is stored: the transport adds its bytes to its count and reports
\* the count.
PartSucceed(c, p) ==
    LET u == up[c]
        n == u.loaded + PartLen(u.total, p)
    IN  /\ Uploading(c)
        /\ p \in u.inflight
        /\ Progress(c, [u EXCEPT !.inflight = @ \ {p}, !.stored = @ \cup {p},
                                 !.loaded = n], Num(n))
        /\ UNCHANGED <<call, bs, reqs, thisBucket, remote, clock, scn, left>>

\* The transport reports a progress of its own making: any count, in any
\* order, or none.
TransportTick(c, loaded) ==
    LET u == up[c]
    IN  /\ Uploading(c)
        /\ u.extra < MaxExtraTicks
        /\ loaded \in scn.ticks
        /\ Progress(c, [u EXCEPT !.extra = @ + 1], loaded)
        /\ UNCHANGED <<call, bs, reqs, thisBucket, remote, clock, scn, left>>

\* All parts are stored: the store completes the object, as variant.
Commit(c, variant) ==
    LET u == up[c]
    IN  /\ Uploading(c)
        /\ u.stored = 1..NumParts(u.total)
        /\ variant \in scn.variants
        /\ clock' = clock + 1
        /\ remote' = (Target(u.bucket, u.key) :> StoredObject(u, variant, clock'))
                        @@ remote
        /\ up' = [up EXCEPT ![c].state = "stored"]
        /\ call' = Spoil(call, u.bucket, u.key)
        /\ UNCHANGED <<hnd, bs, reqs, thisBucket, scn, left>>

\* done() resolves: storeCar sends the head request, for its key in the
\* bucket this.bucket names now (lib.js:243-247).
UploadDone(c) ==
    /\ call[c].pc = "upload"
    /\ up[c].state = "stored"
    /\ call' = [call EXCEPT ![c].pc = "head", ![c].head = thisBucket]
    /\ reqs' = [reqs EXCEPT ![c].head = @ + 1]
    /\ UNCHANGED <<up, hnd, bs, thisBucket, remote, clock, scn, left>>

\* A variant of UploadFailed that takes no notice of the rejection: the head
\* request is sent all the same.
UploadFailedUnnoticed(c) ==
    /\ call[c].pc = "upload"
    /\ up[c].state = "failed"
    /\ call' = [call EXCEPT ![c].pc = "head", ![c].head = thisBucket]
    /\ reqs' = [reqs EXCEPT ![c].head = @ + 1]
    /\ UNCHANGED <<up, hnd, bs, thisBucket, remote, clock, scn, left>>

\* done() rejects: storeCar throws what the upload failed with.
UploadFailed(c) ==
    /\ call[c].pc = "upload"
    /\ up[c].state = "failed"
    /\ call' = [call EXCEPT ![c] = Throw(@, up[c].err)]
    /\ UNCHANGED <<up, hnd, bs, reqs, thisBucket, remote, clock, scn, left>>

\* The store answers the head request: with the object's head, or not found
\* (lib.js:247-253).
HeadResponse(c) ==
    LET resp == HeadObject(call[c].head, call[c].key)
        rec == [call[c] EXCEPT !.resp = resp]
        r == HeadResult(resp)
    IN  /\ call[c].pc = "head"
        /\ call' = [call EXCEPT ![c] =
                      IF ~resp.found THEN Throw(rec, "NotFound")
                      ELSE IF r.throws THEN Throw(rec, r.err)
                      ELSE Return(rec, r.val)]
        /\ reqs' = [reqs EXCEPT ![c].failed = IF resp.found THEN @ ELSE @ + 1]
        /\ UNCHANGED <<up, hnd, bs, thisBucket, remote, clock, scn, left>>

\* ------------------------------------------------- storeBlob, storeDirectory

\* A variant of EncodeBlob without the size test.
EncodeBlobUntested(blob) ==
    [throws |-> FALSE, packs |-> TRUE, car |-> PackBlob(blob), err |-> ""]

\* encodeBlob(blob) (lib.js:504-512): throws on no content, before packCar;
\* else packCar puts the blocks and gives the archive.
EncodeBlob(blob) ==
    IF blob = 0
    THEN [throws |-> TRUE, packs |-> FALSE, car |-> NoCar,
          err |-> "Content size is 0, make sure to provide some content"]
    ELSE [throws |-> FALSE, packs |-> TRUE, car |-> PackBlob(blob), err |-> ""]

\* A variant of EncodeDirectory without the size test.
EncodeDirectoryUntested(files) ==
    [throws |-> FALSE, packs |-> TRUE, car |-> PackFiles(files), err |-> ""]

\* encodeDirectory(files) (lib.js:539-557): packCar reads the files, which
\* adds their sizes up, and puts the blocks; then no content throws.
EncodeDirectory(files) ==
    IF SumSizes(files) = 0
    THEN [throws |-> TRUE, packs |-> TRUE, car |-> PackFiles(files),
          err |-> "Total size of files should exceed 0, make sure to provide some content"]
    ELSE [throws |-> FALSE, packs |-> TRUE, car |-> PackFiles(files), err |-> ""]

Encoded(rec) ==
    IF rec.op = "storeBlob" THEN EncodeBlob(rec.blob) ELSE EncodeDirectory(rec.files)

\* storeBlob(service, blob, objectName) (lib.js:158-162, 575) up to its
\* first suspension: the Blockstore is made, encodeBlob throws or calls pack.
StoreBlob(c, svc, blob, name) ==
    LET rec == [IdleCall EXCEPT !.op = "storeBlob", !.svc = svc, !.name = name,
                                !.blob = blob]
    IN  /\ Free(c)
        /\ Begin(c)
        /\ bs' = [bs EXCEPT ![c] = [NoStore EXCEPT !.created = TRUE]]
        /\ call' = [call EXCEPT ![c] =
                      IF EncodeBlob(blob).packs THEN [rec EXCEPT !.pc = "pack"]
                      ELSE Throw(rec, EncodeBlob(blob).err)]
        /\ up' = [up EXCEPT ![c] = NoUpload]
        /\ hnd' = [hnd EXCEPT ![c] = NoHandler]
        /\ reqs' = [reqs EXCEPT ![c] = NoReqs]
        /\ UNCHANGED <<thisBucket, remote>>

\* storeDirectory(service, files, objectName) (lib.js:266-272, 639) up to
\* its first suspension: the Blockstore is made, encodeDirectory calls pack.
StoreDirectory(c, svc, files, name) ==
    LET rec == [IdleCall EXCEPT !.op = "storeDirectory", !.svc = svc,
                                !.name = name, !.files = files]
    IN  /\ Free(c)
        /\ Begin(c)
        /\ bs' = [bs EXCEPT ![c] = [NoStore EXCEPT !.created = TRUE]]
        /\ call' = [call EXCEPT ![c] =
                      IF EncodeDirectory(files).packs THEN [rec EXCEPT !.pc = "pack"]
                      ELSE Throw(rec, EncodeDirectory(files).err)]
        /\ up' = [up EXCEPT ![c] = NoUpload]
        /\ hnd' = [hnd EXCEPT ![c] = NoHandler]
        /\ reqs' = [reqs EXCEPT ![c] = NoReqs]
        /\ UNCHANGED <<thisBucket, remote>>

\* pack resolves (lib.js:776): the blocks are in the Blockstore. The encoder
\* throws or returns { cid, car }, and storeCar is called for the archive,
\* under objectName or else the cid's string (lib.js:163, 273-274).
Pack(c) ==
    LET rec == call[c]
        enc == Encoded(rec)
        str == CidToString(enc.car.root)
    IN  /\ rec.pc = "pack"
        /\ bs' = [bs EXCEPT ![c].puts = @ + enc.car.blocks]
        /\ IF enc.throws
           THEN /\ call' = [call EXCEPT ![c] = Throw(rec, enc.err)]
                /\ UNCHANGED <<up, hnd, thisBucket>>
           ELSE EnterStoreCar(c, [rec EXCEPT !.cidString = str], rec.svc,
                              enc.car, Or(rec.name, str), NoOptions)
        /\ UNCHANGED <<reqs, remote, clock, scn, left>>

\* A variant of Finally for a storeCar call that is not awaited: the try
\* block is left while the upload is at work.
FinallyUnawaited(c) ==
    /\ call[c].pc \in {"finally", "upload"}
    /\ call[c].op \in {"storeBlob", "storeDirectory"}
    /\ bs' = [bs EXCEPT ![c].closed = @ + 1]
    /\ call' = [call EXCEPT ![c].pc = "done"]
    /\ UNCHANGED <<up, hnd, reqs, thisBucket, remote, clock, scn, left>>

\* finally { await blockstore.close() } (lib.js:166-168, 275-277); then the
\* call settles as the try block ended.
Finally(c) ==
    /\ call[c].pc = "finally"
    /\ bs' = [bs EXCEPT ![c].closed = @ + 1]
    /\ call' = [call EXCEPT ![c].pc = "done"]
    /\ UNCHANGED <<up, hnd, reqs, thisBucket, remote, clock, scn, left>>

\* ---------------------------------------------------------------------- store

\* store(service, metadata, objectName) (lib.js:306-307, 717) up to its
\* first suspension: encodeNFT validates the record (lib.js:479-481) and
\* throws, or calls Token.Token.encode.
Store(c, svc, input, name) ==
    LET v == ValidateERC1155(input)
        rec == [IdleCall EXCEPT !.op = "store", !.svc = svc, !.name = name,
                                !.token = input, !.warned = v.warns]
    IN  /\ Free(c)
        /\ Begin(c)
        /\ call' = [call EXCEPT ![c] =
                      IF v.throws THEN Throw(rec, v.err)
                      ELSE [rec EXCEPT !.pc = "encode"]]
        /\ up' = [up EXCEPT ![c] = NoUpload]
        /\ hnd' = [hnd EXCEPT ![c] = NoHandler]
        /\ bs' = [bs EXCEPT ![c] = NoStore]
        /\ reqs' = [reqs EXCEPT ![c] = NoReqs]
        /\ UNCHANGED <<thisBucket, remote>>

\* Token.Token.encode resolves with { token, car, cid }: storeCar is called
\* for the archive, under objectName or else the cid's string (lib.js:308).
EncodeNFT(c) ==
    LET rec == call[c]
        car == EncodeToken(rec.token)
        str == CidToString(car.root)
    IN  /\ rec.pc = "encode"
        /\ EnterStoreCar(c, [rec EXCEPT !.cidString = str], rec.svc, car,
                         Or(rec.name, str), NoOptions)
        /\ UNCHANGED <<bs, reqs, remote, clock, scn, left>>

\* ------------------------------------------------------------ status, delete

\* status(service, cid, objectName) (lib.js:321-357, 655) up to its
\* suspension: the head request for objectName or else cid is sent.
Status(c, svc, cid, name) ==
    LET cfg == Configure(svc, 0)
        b == IF cfg.writes THEN cfg.bucket ELSE thisBucket
        rec == [IdleCall EXCEPT !.op = "status", !.svc = svc, !.name = name,
                                !.cid = cid]
    IN  /\ Free(c)
        /\ Begin(c)
        /\ thisBucket' = b
        /\ IF cfg.throws
           THEN /\ call' = [call EXCEPT ![c] = Throw(rec, cfg.err)]
                /\ reqs' = [reqs EXCEPT ![c] = NoReqs]
           ELSE /\ call' = [call EXCEPT ![c] =
                              [rec EXCEPT !.pc = "send", !.head = b,
                                          !.key = Or(name, cid)]]
                /\ reqs' = [reqs EXCEPT ![c] = [NoReqs EXCEPT !.head = 1]]
        /\ up' = [up EXCEPT ![c] = NoUpload]
        /\ hnd' = [hnd EXCEPT ![c] = NoHandler]
        /\ bs' = [bs EXCEPT ![c] = NoStore]
        /\ UNCHANGED remote

\* A variant of StatusResponse that takes a not-found answer for an empty
\* record.
StatusResponseMasked(c) ==
    LET resp == HeadObject(call[c].head, call[c].key)
        rec == [call[c] EXCEPT !.resp = resp]
        r == StatusResult(resp)
    IN  /\ call[c].op = "status"
        /\ call[c].pc = "send"
        /\ call' = [call EXCEPT ![c] =
                      IF resp.found /\ r.throws THEN Throw(rec, r.err)
                      ELSE [rec EXCEPT !.pc = "done", !.out = "ok",
                                       !.rec = r.rec]]
        /\ reqs' = [reqs EXCEPT ![c].failed = IF resp.found THEN @ ELSE @ + 1]
        /\ UNCHANGED <<up, hnd, bs, thisBucket, remote, clock, scn, left>>

\* The store answers status's head request (lib.js:357-385).
StatusResponse(c) ==
    LET resp == HeadObject(call[c].head, call[c].key)
        rec == [call[c] EXCEPT !.resp = resp]
        r == StatusResult(resp)
    IN  /\ call[c].op = "status"
        /\ call[c].pc = "send"
        /\ call' = [call EXCEPT ![c] =
                      IF ~resp.found THEN Throw(rec, "NotFound")
                      ELSE IF r.throws THEN Throw(rec, r.err)
                      ELSE [rec EXCEPT !.pc = "done", !.out = "ok",
                                       !.rec = r.rec]]
        /\ reqs' = [reqs EXCEPT ![c].failed = IF resp.found THEN @ ELSE @ + 1]
        /\ UNCHANGED <<up, hnd, bs, thisBucket, remote, clock, scn, left>>

\* A variant of Delete that looks the object up before it removes it.
DeleteAfterHead(c, svc, cid, name) ==
    LET cfg == Configure(svc, 0)
        b == IF cfg.writes THEN cfg.bucket ELSE thisBucket
        rec == [IdleCall EXCEPT !.op = "delete", !.svc = svc, !.name = name,
                                !.cid = cid]
    IN  /\ Free(c)
        /\ Begin(c)
        /\ thisBucket' = b
        /\ IF cfg.throws
           THEN /\ call' = [call EXCEPT ![c] = Throw(rec, cfg.err)]
                /\ reqs' = [reqs EXCEPT ![c] = NoReqs]
           ELSE /\ call' = [call EXCEPT ![c] =
                              [rec EXCEPT !.pc = "send", !.head = b,
                                          !.key = Or(name, cid)]]
                /\ reqs' = [reqs EXCEPT ![c] = [NoReqs EXCEPT !.head = 1,
                                                              !.delete = 1]]
        /\ up' = [up EXCEPT ![c] = NoUpload]
        /\ hnd' = [hnd EXCEPT ![c] = NoHandler]
        /\ bs' = [bs EXCEPT ![c] = NoStore]
        /\ UNCHANGED remote

\* delete(service, cid, objectName) (lib.js:398-434, 673) up to its
\* suspension: the delete request for objectName or else cid is sent.
Delete(c, svc, cid, name) ==
    LET cfg == Configure(svc, 0)
        b == IF cfg.writes THEN cfg.bucket ELSE thisBucket
        rec == [IdleCall EXCEPT !.op = "delete", !.svc = svc, !.name = name,
                                !.cid = cid]
    IN  /\ Free(c)
        /\ Begin(c)
        /\ thisBucket' = b
        /\ IF cfg.throws
           THEN /\ call' = [call EXCEPT ![c] = Throw(rec, cfg.err)]
                /\ reqs' = [reqs EXCEPT ![c] = NoReqs]
           ELSE /\ call' = [call EXCEPT ![c] =
                              [rec EXCEPT !.pc = "send", !.head = b,
                                          !.key = Or(name, cid)]]
                /\ reqs' = [reqs EXCEPT ![c] = [NoReqs EXCEPT !.delete = 1]]
        /\ up' = [up EXCEPT ![c] = NoUpload]
        /\ hnd' = [hnd EXCEPT ![c] = NoHandler]
        /\ bs' = [bs EXCEPT ![c] = NoStore]
        /\ UNCHANGED remote

\* The store removes the object, if it holds one, and answers (lib.js:434).
DeleteResponse(c) ==
    LET t == Target(call[c].head, call[c].key)
    IN  /\ call[c].op = "delete"
        /\ call[c].pc = "send"
        /\ call[c].head \in Buckets
        /\ remote' = [k \in DOMAIN remote \ {t} |-> remote[k]]
        /\ call' = [Spoil(call, call[c].head, call[c].key) EXCEPT
                      ![c].pc = "done", ![c].out = "ok"]
        /\ UNCHANGED <<up, hnd, bs, reqs, thisBucket, clock, scn, left>>

\* The delete request fails, refused for its bucket or lost on its way:
\* `await s3client.send(deleteCommand)` throws (lib.js:434).
DeleteFailed(c) ==
    LET refused == call[c].head \notin Buckets
    IN  /\ call[c].op = "delete"
        /\ call[c].pc = "send"
        /\ refused \/ left.faults > 0
        /\ left' = [left EXCEPT !.faults = IF refused THEN @ ELSE @ - 1]
        /\ reqs' = [reqs EXCEPT ![c].failed = @ + 1]
        /\ call' = [call EXCEPT ![c] =
                      Throw(@, IF refused THEN "NoSuchBucket" ELSE "TransportError")]
        /\ UNCHANGED <<up, hnd, bs, thisBucket, remote, clock, scn>>

\* ------------------------------------------------------------------ the steps

Next ==
    \/ \E c \in Slots, svc \in scn.svcs, car \in scn.cars, opts \in scn.optss :
          \E name \in scn.names :
             StoreCar(c, svc, car, Or(name, CidToString(car.root)), opts)
    \/ \E c \in Slots, svc \in scn.svcs, blob \in scn.blobs, name \in scn.names :
          StoreBlob(c, svc, blob, name)
    \/ \E c \in Slots, svc \in scn.svcs, files \in scn.dirs, name \in scn.names :
          StoreDirectory(c, svc, files, name)
    \/ \E c \in Slots, svc \in scn.svcs, cid \in scn.cids, name \in scn.names :
          Status(c, svc, cid, name)
    \/ \E c \in Slots, svc \in scn.svcs, cid \in scn.cids, name \in scn.names :
          Delete(c, svc, cid, name)
    \/ \E c \in Slots : Pack(c)
    \/ \E c \in Slots : PartStart(c)
    \/ \E c \in Slots : \E p \in up[c].inflight : PartFail(c, p)
    \/ \E c \in Slots : \E p \in up[c].inflight : PartSucceed(c, p)
    \/ \E c \in Slots, loaded \in scn.ticks : TransportTick(c, loaded)
    \/ \E c \in Slots, variant \in scn.variants : Commit(c, variant)
    \/ \E c \in Slots : UploadDone(c)
    \/ \E c \in Slots : UploadFailed(c)
    \/ \E c \in Slots : HeadResponse(c)
    \/ \E c \in Slots : Finally(c)
    \/ \E c \in Slots : StatusResponse(c)
    \/ \E c \in Slots : DeleteResponse(c)
    \/ \E c \in Slots : DeleteFailed(c)
    \/ \E c \in Slots, svc \in scn.svcs, input \in scn.tokens, name \in scn.names :
          Store(c, svc, input, name)
    \/ \E c \in Slots : EncodeNFT(c)

\* The single-call scenario.
Spec == Init /\ [][Next]_vars

\* The steps of the concurrent scenario: the transport does not fail, and
\* the archives are the caller's or a directory's.
NextConcurrent ==
    \/ \E c \in Slots, svc \in scn.svcs, car \in scn.cars, opts \in scn.optss :
          StoreCar(c, svc, car, "n1", opts)
    \/ \E c \in Slots, svc \in scn.svcs, files \in scn.dirs, name \in scn.names :
          StoreDirectory(c, svc, files, name)
    \/ \E c \in Slots, svc \in scn.svcs, cid \in scn.cids, name \in scn.names :
          Status(c, svc, cid, name)
    \/ \E c \in Slots, svc \in scn.svcs, cid \in scn.cids, name \in scn.names :
          Delete(c, svc, cid, name)
    \/ \E c \in Slots : Pack(c)
    \/ \E c \in Slots : PartStart(c)
    \/ \E c \in Slots : \E p \in up[c].inflight : PartSucceed(c, p)
    \/ \E c \in Slots, variant \in scn.variants : Commit(c, variant)
    \/ \E c \in Slots : UploadDone(c)
    \/ \E c \in Slots : HeadResponse(c)
    \/ \E c \in Slots : Finally(c)
    \/ \E c \in Slots : StatusResponse(c)
    \/ \E c \in Slots : DeleteResponse(c)

SpecConcurrent == InitConcurrent /\ [][NextConcurrent]_vars

\* The caller of the sequential scenario makes its next call, in the next
\* slot, when the calls it made have settled.
Awaited(c) == call[c].pc = "idle" /\ \A d \in Slots : call[d].pc \in {"idle", "done"}

\* The steps of the sequential scenario.
NextSequence ==
    \/ \E c \in Slots, svc \in scn.svcs, files \in scn.dirs, name \in scn.names :
          Awaited(c) /\ StoreDirectory(c, svc, files, name)
    \/ \E c \in Slots, svc \in scn.svcs, cid \in scn.cids, name \in scn.names :
          Awaited(c) /\ Status(c, svc, cid, name)
    \/ \E c \in Slots, svc \in scn.svcs, cid \in scn.cids, name \in scn.names :
          Awaited(c) /\ Delete(c, svc, cid, name)
    \/ \E c \in Slots : Pack(c)
    \/ \E c \in Slots : PartStart(c)
    \/ \E c \in Slots : \E p \in up[c].inflight : PartSucceed(c, p)
    \/ \E c \in Slots, variant \in scn.variants : Commit(c, variant)
    \/ \E c \in Slots : UploadDone(c)
    \/ \E c \in Slots : HeadResponse(c)
    \/ \E c \in Slots : Finally(c)
    \/ \E c \in Slots : StatusResponse(c)
    \/ \E c \in Slots : DeleteResponse(c)
    \/ \E c \in Slots : DeleteFailed(c)

SpecSequence == InitSequence /\ [][NextSequence]_vars

\* The steps of the scenario of a long upload.
NextParts ==
    \/ \E c \in Slots, svc \in scn.svcs, car \in scn.cars, opts \in scn.optss :
          \E name \in scn.names :
             StoreCar(c, svc, car, Or(name, CidToString(car.root)), opts)
    \/ \E c \in Slots : PartStart(c)
    \/ \E c \in Slots : \E p \in up[c].inflight : PartFail(c, p)
    \/ \E c \in Slots : \E p \in up[c].inflight : PartSucceed(c, p)
    \/ \E c \in Slots, variant \in scn.variants : Commit(c, variant)
    \/ \E c \in Slots : UploadDone(c)
    \/ \E c \in Slots : HeadResponse(c)

SpecParts == InitParts /\ [][NextParts]_vars

\* ===================================================================== claims

StoreOps == {"storeCar", "storeBlob", "storeDirectory", "store"}
Settled(c) == call[c].pc \in {"finally", "done"}

\* C1 (as claimed): the value a successful storeCar or storeBlob returned is
\* the cid tag the store holds for the key the call uploaded to, so that,
\* while that key is neither written nor deleted, a status lookup of it gives
\* a record with that cid.
C1_StatusCidIsStoredCid ==
    \A c \in Slots :
        (call[c].op \in {"storeCar", "storeBlob"} /\ call[c].out = "ok"
            /\ call[c].clean)
        => LET resp == HeadObject(up[c].bucket, up[c].key)
           IN  /\ resp.found
               /\ ~StatusResult(resp).throws
               /\ StatusResult(resp).rec.cid = call[c].val

\* C2: when the upload is stored and the head response has no metadata map
\* or no cid tag, storeCar throws and returns nothing, having sent one head
\* request; from then on it sends no request and its upload does not move.
C2_MissingTag(c) ==
    /\ call[c].op \in StoreOps
    /\ call[c].resp.found
    /\ ~call[c].resp.hasMeta \/ call[c].resp.cid = Undef

C2_MissingCidFails ==
    /\ [](\A c \in Slots :
            C2_MissingTag(c)
            => /\ Settled(c)
               /\ call[c].out = "err"
               /\ call[c].err = "No CID Returned from Remote"
               /\ call[c].val = Undef
               /\ up[c].state = "stored"
               /\ reqs[c].head = 1)
    /\ [][\A c \in Slots :
            C2_MissingTag(c) => (reqs'[c] = reqs[c] /\ up'[c] = up[c])]_vars

C2_Witness ==
    \E c \in Slots :
        /\ C2_MissingTag(c)
        /\ call[c].op = "storeCar"
        /\ call[c].pc = "done"
        /\ ~call[c].resp.hasMeta

\* C3 (as claimed): when an upload is stored, and the transport reported
\* nothing but its count after each part, the values given to onStoredChunk
\* add up to the archive's length.
C3_ProgressSumsToLength ==
    \A c \in Slots :
        (call[c].opts.onStoredChunk /\ up[c].state = "stored" /\ up[c].extra = 0)
        => hnd[c].sum = up[c].total * Scale

\* C4 (as claimed): no value given to onStoredChunk is negative, whatever
\* the transport reports.
C4_NoNegativeProgress ==
    \A c \in Slots : hnd[c].calls > 0 => hnd[c].least >= 0

\* C5 (as claimed): a tick whose loaded count is lower than the count of the
\* tick before it fails the upload, and onStoredChunk is not called for it.
C5_DecreasingTickIsFatal ==
    \A c \in Slots :
        (hnd[c].ticked /\ TypeOf(hnd[c].tick) = "number"
            /\ TypeOf(hnd[c].prev) = "number" /\ hnd[c].tick.v < hnd[c].prev.v)
        => (~hnd[c].called /\ up[c].state = "failed")

\* C6: a tick whose loaded is no number throws: onStoredChunk is not called
\* for it, storedBytes stays as it was, the upload fails and storeCar
\* returns no CID but throws that error.
C6_NonNumericTickThrows ==
    \A c \in Slots :
        (hnd[c].ticked /\ TypeOf(hnd[c].tick) # "number")
        => /\ hnd[c].threw
           /\ ~hnd[c].called
           /\ hnd[c].storedBytes = hnd[c].before
           /\ up[c].state = "failed"
           /\ up[c].err = "Expected Number for Loaded Progress"
           /\ call[c].out # "ok"
           /\ call[c].val = Undef
           /\ reqs[c].head = 0
           /\ Settled(c) => call[c].err = "Expected Number for Loaded Progress"

C6_Witness ==
    \E c \in Slots :
        /\ hnd[c].ticked
        /\ TypeOf(hnd[c].tick) # "number"
        /\ call[c].opts.onStoredChunk
        /\ hnd[c].calls > 0
        /\ call[c].pc = "done"
        /\ call[c].out = "err"

\* C7 (as claimed): with an onComplete given and all parts stored,
\* onComplete has been called once when the head request is sent; it is
\* never called when the upload fails.
C7_OnCompleteOnce ==
    \A c \in Slots :
        call[c].opts.onComplete
        => /\ reqs[c].head > 0 => hnd[c].completed = 1
           /\ up[c].state = "failed" => hnd[c].completed = 0

\* C8 (as claimed): every upload session carries metadata that maps cid to
\* the cid string of the archive's root.
C8_SessionTaggedWithCid ==
    \A c \in Slots :
        up[c].state # "none" => up[c].metadata.cid = CidToString(up[c].root)

\* C8 (amended): every upload session carries, from its making, metadata
\* that maps import to car and has no cid key.
C8_SessionMarkedAsCar ==
    \A c \in Slots :
        up[c].state # "none"
        => (up[c].metadata.import = "car" /\ up[c].metadata.cid = Undef)

C8_Witness ==
    \E c \in Slots :
        /\ call[c].op = "storeBlob"
        /\ up[c].state = "stored"
        /\ reqs[c].upload > 0
        /\ call[c].out = "ok"

\* C9: storeBlob of an empty blob fails, with no block put into the
\* Blockstore and no request sent, nor an upload made.
C9_EmptyBlobFails ==
    \A c \in Slots :
        (call[c].op = "storeBlob" /\ call[c].blob = 0)
        => /\ Settled(c)
           /\ call[c].out = "err"
           /\ call[c].err = "Content size is 0, make sure to provide some content"
           /\ bs[c].puts = 0
           /\ reqs[c] = NoReqs
           /\ up[c].state = "none"

C9_Witness ==
    \E c \in Slots :
        /\ call[c].op = "storeBlob"
        /\ call[c].blob = 0
        /\ call[c].pc = "done"
        /\ bs[c].closed = 1

\* C10 (as claimed): storeDirectory of files without content fails with no
\* block put into the Blockstore and no request sent.
C10_EmptyDirectoryFailsFirst ==
    \A c \in Slots :
        (call[c].op = "storeDirectory" /\ SumSizes(call[c].files) = 0
            /\ Settled(c))
        => /\ call[c].out = "err"
           /\ bs[c].puts = 0
           /\ reqs[c] = NoReqs

\* C10 (amended): storeDirectory of files without content fails, with no
\* request sent nor an upload made, once pack has put the files' blocks
\* into the Blockstore.
C10_EmptyDirectoryFails ==
    \A c \in Slots :
        (call[c].op = "storeDirectory" /\ SumSizes(call[c].files) = 0)
        => /\ reqs[c] = NoReqs
           /\ up[c].state = "none"
           /\ call[c].out # "ok"
           /\ Settled(c) => /\ call[c].out = "err"
                            /\ bs[c].puts >= Len(call[c].files)

C10_Witness ==
    \E c \in Slots :
        /\ call[c].op = "storeDirectory"
        /\ Len(call[c].files) = 2
        /\ SumSizes(call[c].files) = 0
        /\ call[c].pc = "done"
        /\ call[c].out = "err"
        /\ bs[c].puts > 0

\* C11: a storeBlob or storeDirectory call has made its Blockstore; the
\* Blockstore is not closed while the call is pending and is closed once
\* when the call has settled, however it settled.
C11_BlockstoreClosedOnce ==
    \A c \in Slots :
        call[c].op \in {"storeBlob", "storeDirectory"}
        => /\ bs[c].created
           /\ call[c].pc # "done" => bs[c].closed = 0
           /\ call[c].pc = "done" => (bs[c].closed = 1 /\ call[c].out \in {"ok", "err"})

\* A storeBlob whose upload failed when a part's attempts were used up.
C11_Witness ==
    \E c \in Slots :
        /\ call[c].op = "storeBlob"
        /\ call[c].pc = "done"
        /\ call[c].err = "TransportError"
        /\ up[c].maxAttempts > 0
        /\ \E p \in DOMAIN up[c].tries : up[c].tries[p] = up[c].maxAttempts
        /\ bs[c].closed = 1

\* C12: the Blockstore of a storeBlob or storeDirectory call is closed only
\* when the storeCar call has settled, its upload session no longer at
\* work, and the archive is not read once the Blockstore is closed.
C12_NoReadAfterClose ==
    /\ \A c \in Slots :
          call[c].op \in {"storeBlob", "storeDirectory"}
          => /\ bs[c].closed > 0 => (up[c].state # "active" /\ call[c].pc = "done")
             /\ up[c].state = "active" => call[c].pc = "upload"
             /\ bs[c].late = 0

\* A storeBlob of an archive of two parts, read to its end, stored and
\* closed.
C12_Witness ==
    \E c \in Slots :
        /\ call[c].op = "storeBlob"
        /\ NumParts(up[c].total) > 1
        /\ up[c].next > NumParts(up[c].total)
        /\ bs[c].puts > 0
        /\ bs[c].closed = 1
        /\ call[c].out = "ok"

\* C13 (as claimed): the head request of a storeCar call is for the bucket
\* its upload was for, the bucket of its own service, whatever other calls
\* are pending.
C13_HeadTargetsOwnBucket ==
    \A c \in Slots :
        (call[c].op \in StoreOps /\ reqs[c].head > 0)
        => /\ call[c].head = up[c].bucket
           /\ up[c].bucket = Configure(call[c].svc, call[c].opts.maxRetries).bucket

\* C14 (as claimed): no upload, head or delete request is sent for an
\* undefined bucket: a call whose service gives no bucket sends no request
\* at all.
C14_NoRequestWithoutBucket ==
    \A c \in Slots :
        /\ reqs[c].upload > 0 => up[c].bucket # Undef
        /\ (reqs[c].head > 0 \/ reqs[c].delete > 0) => call[c].head # Undef
        /\ (call[c].op # "none" /\ call[c].svc.bucket = Undef
               /\ call[c].svc.tokBucket = Undef)
           => reqs[c] = NoReqs

\* C15: a status call that got a head response returns a record exactly
\* when the response carries a cid tag, a numeric content length and a
\* last-modified time, and throws otherwise; the record's cid and pin.cid are
\* the tag, its size the content length, its deals empty, its pin.status
\* pinned, its created and pin.created the last-modified time.
C15_StatusRecord ==
    \A c \in Slots :
        (call[c].op = "status" /\ call[c].pc = "done" /\ call[c].resp.found)
        => LET r == call[c].resp
               complete == /\ r.hasMeta
                           /\ r.cid # Undef
                           /\ TypeOf(r.len) = "number"
                           /\ TypeOf(r.lm) # "undefined"
           IN  /\ call[c].out = "ok" <=> complete
               /\ call[c].out = "err" <=> ~complete
               /\ ~complete => (call[c].rec = NoRecord /\ call[c].err # "")
               /\ complete => /\ call[c].rec.cid = r.cid
                              /\ call[c].rec.pin.cid = r.cid
                              /\ call[c].rec.size = r.len.v
                              /\ call[c].rec.deals = <<>>
                              /\ call[c].rec.pin.status = "pinned"
                              /\ call[c].rec.created = r.lm.v
                              /\ call[c].rec.pin.created = r.lm.v

\* A status call that returned the record of a stored directory.
C15_Witness ==
    \E c \in Slots :
        /\ call[c].op = "status"
        /\ call[c].pc = "done"
        /\ call[c].out = "ok"
        /\ call[c].rec.size = PackFiles(<<1>>).len
        /\ call[c].rec.created > 0
        /\ call[c].rec.cid = CidV1String(PackFiles(<<1>>).root)

\* C16: a delete call sends one request, a remove of the object under the
\* object name or else the cid in its service's bucket, and no head or
\* upload request; it returns when the remove did not fail and throws when
\* it failed.
C16_DeleteIsOneRemove ==
    \A c \in Slots :
        call[c].op = "delete"
        => /\ reqs[c].head = 0
           /\ reqs[c].upload = 0
           /\ reqs[c].delete = 1
           /\ call[c].key = Or(call[c].name, call[c].cid)
           /\ call[c].head = Configure(call[c].svc, 0).bucket
           /\ call[c].pc = "send" => reqs[c].failed = 0
           /\ call[c].pc = "done"
              => /\ call[c].out = "ok" <=> reqs[c].failed = 0
                 /\ call[c].out = "err" <=> reqs[c].failed = 1

\* A directory was stored under its cid string and deleted by it, and a
\* second delete by it, of an object that was no longer there, returned too.
C16_Witness ==
    /\ call[1].op = "storeDirectory" /\ call[1].out = "ok" /\ call[1].name = Null
    /\ \A c \in {2, 3} :
          /\ call[c].op = "delete"
          /\ call[c].svc = call[1].svc
          /\ call[c].cid = call[1].val
          /\ call[c].name = Null
          /\ call[c].pc = "done"
          /\ call[c].out = "ok"
    /\ remote = <<>>

\* C17: when a directory was stored under its default name, then deleted by
\* the cid storeDirectory returned, and then looked up by that cid, all with
\* one service, the status call throws the store's not-found error and
\* returns no record.
C17_Stored(c) ==
    /\ call[c].op = "storeDirectory"
    /\ call[c].name = Null
    /\ call[c].pc = "done"
    /\ call[c].out = "ok"

C17_DeletedThenLookedUp(c, d, e) ==
    /\ C17_Stored(c)
    /\ call[d].op = "delete" /\ call[d].svc = call[c].svc
    /\ call[d].cid = call[c].val /\ call[d].name = Null
    /\ call[d].pc = "done" /\ call[d].out = "ok"
    /\ call[e].op = "status" /\ call[e].svc = call[c].svc
    /\ call[e].cid = call[c].val /\ call[e].name = Null
    /\ call[e].pc = "done"

C17_StatusAfterDeleteNotFound ==
    C17_DeletedThenLookedUp(1, 2, 3)
    => /\ call[3].out = "err"
       /\ call[3].err = "NotFound"
       /\ ~call[3].resp.found
       /\ call[3].rec = NoRecord

C17_Witness ==
    /\ C17_DeletedThenLookedUp(1, 2, 3)
    /\ up[1].state = "stored"
    /\ call[1].val = CidToString(up[1].root)
    /\ reqs[2].delete = 1
    /\ reqs[3].head = 1

\* C18 (as claimed): in a storeCar call on a service with a token, static
\* or a client instance, no part is attempted more often than the maxRetries
\* option says, or than MAX_STORE_RETRIES times when none is given.
C18_AttemptsWithinMaxRetries ==
    \A c \in Slots :
        (call[c].op \in StoreOps /\ call[c].svc.token /\ up[c].state # "none")
        => \A p \in DOMAIN up[c].tries :
              up[c].tries[p] <= IF call[c].opts.maxRetries # 0
                                THEN call[c].opts.maxRetries
                                ELSE MAX_STORE_RETRIES

\* C19: a store call on a token record whose name or description is no
\* string, whose image is no Blob, or whose decimals is given and no number,
\* throws the error of the first such field, with nothing encoded, no
\* upload made and no request sent; a record with none of these is not
\* refused, and an image of another MIME type than image/* only warns.
C19_Refused(input) ==
    \/ input.name # "string"
    \/ input.description # "string"
    \/ input.image = "none"
    \/ input.decimals \notin {"undefined", "number"}

C19_ErrorOf(input) ==
    IF input.name # "string"
    THEN "string property name identifying the asset is required"
    ELSE IF input.description # "string"
    THEN "string property description describing asset is required"
    ELSE IF input.image = "none"
    THEN "property image must be a Blob or File object"
    ELSE "property decimals must be an integer value"

C19_ValidationErrors ==
    {C19_ErrorOf(input) : input \in {i \in TokenInputs : C19_Refused(i)}}

C19_InvalidTokenFails ==
    \A c \in Slots :
        call[c].op = "store"
        => LET input == call[c].token
           IN  /\ C19_Refused(input)
                  => /\ call[c].pc = "done"
                     /\ call[c].out = "err"
                     /\ call[c].err = C19_ErrorOf(input)
                     /\ call[c].car = NoCar
                     /\ up[c].state = "none"
                     /\ reqs[c] = NoReqs
               /\ ~C19_Refused(input)
                  => /\ call[c].err \notin C19_ValidationErrors
                     /\ call[c].warned <=> input.image = "video/mp4"
                     /\ call[c].pc = "done" /\ call[c].out = "err"
                        => call[c].car # NoCar

\* A store call refused for its decimals alone, and warned of its image.
C19_Witness ==
    \E c \in Slots :
        /\ call[c].op = "store"
        /\ call[c].token = TokenInput("string", "string", "video/mp4", "string")
        /\ call[c].pc = "done"
        /\ call[c].warned

\* C20: storeCar sends its head request only when the upload is stored, all
\* its parts with it; when the upload has failed, no head request is sent,
\* no CID is returned and the call throws the error the upload failed with.
C20_HeadOnlyAfterUpload ==
    \A c \in Slots :
        call[c].op \in StoreOps
        => /\ reqs[c].head > 0
              => /\ up[c].state = "stored"
                 /\ up[c].stored = 1..NumParts(up[c].total)
                 /\ reqs[c].head = 1
           /\ up[c].state = "failed"
              => /\ reqs[c].head = 0
                 /\ call[c].out # "ok"
                 /\ call[c].val = Undef
                 /\ Settled(c) => (call[c].out = "err" /\ call[c].err = up[c].err)

\* A storeCar whose part failed as often as maxRetries allows, settled.
C20_Witness ==
    \E c \in Slots :
        /\ call[c].op = "storeCar"
        /\ call[c].opts.maxRetries = CallerRetries
        /\ up[c].maxAttempts = CallerRetries
        /\ up[c].state = "failed"
        /\ \E p \in DOMAIN up[c].tries : up[c].tries[p] = CallerRetries
        /\ call[c].pc = "done"
        /\ call[c].err = "TransportError"

\* C21: at every moment of an upload at most MAX_CONCURRENT_UPLOADS parts
\* are in flight, the parts in flight are parts of the archive not stored
\* yet and read off the stream already, and no two of them share a byte of
\* the archive stream.
C21_BoundedPartsInFlight ==
    \A c \in Slots :
        up[c].state # "none"
        => /\ Cardinality(up[c].inflight) <= MAX_CONCURRENT_UPLOADS
           /\ up[c].inflight \subseteq 1..(up[c].next - 1)
           /\ up[c].inflight \cap up[c].stored = {}
           /\ \A p \in up[c].inflight : \A q \in up[c].inflight \ {p} :
                 PartRange(up[c].total, p) \cap PartRange(up[c].total, q) = {}
           /\ \A p \in up[c].inflight :
                 PartRange(up[c].total, p) \subseteq 0..(up[c].total - 1)

\* An upload of more parts than may be sent at once, with as many parts in
\* flight as may be and a part still to be read.
C21_Witness ==
    \E c \in Slots :
        /\ up[c].state = "active"
        /\ NumParts(up[c].total) > MAX_CONCURRENT_UPLOADS
        /\ Cardinality(up[c].inflight) = MAX_CONCURRENT_UPLOADS
        /\ up[c].next <= NumParts(up[c].total)

\* C22: storeDirectory returns the cid string of the root it computed for
\* the directory's archive, whatever tag the store reports, and only when
\* the upload is stored and the head response carried a cid tag; when the
\* encoding, the upload or the head lookup fails it throws and returns no
\* value.
C22_DirectoryReturnsLocalCid ==
    \A c \in Slots :
        call[c].op = "storeDirectory"
        => /\ call[c].out = "ok"
              => /\ call[c].val = CidToString(PackFiles(call[c].files).root)
                 /\ SumSizes(call[c].files) > 0
                 /\ up[c].state = "stored"
                 /\ call[c].resp.found
                 /\ call[c].resp.hasMeta
                 /\ call[c].resp.cid # Undef
           /\ call[c].out # "ok" => call[c].val = Undef
           /\ call[c].pc = "done"
              => (call[c].out = "err"
                    <=> \/ SumSizes(call[c].files) = 0
                        \/ up[c].state # "stored"
                        \/ ~call[c].resp.found
                        \/ ~call[c].resp.hasMeta
                        \/ call[c].resp.cid = Undef)

\* A storeDirectory that returned its own cid string where the store
\* reported another.
C22_Witness ==
    \E c \in Slots :
        /\ call[c].op = "storeDirectory"
        /\ call[c].pc = "done"
        /\ call[c].out = "ok"
        /\ call[c].resp.cid = CidV1String(up[c].root)
        /\ call[c].val # call[c].resp.cid

\* C23: the key of an upload is the object name when one is given and the
\* archive's cid string otherwise, the key of a status or delete request is
\* the object name when one is given and the cid otherwise; a delete
\* response leaves every object under another key as it is; so when a
\* directory was stored under a name, and delete was called with its cid
\* and no name, a status call with the cid and that name finds the object
\* as it was stored, and returns its record when the store reports its
\* length and date.
C23_KeyOf(c) ==
    IF call[c].name # Null THEN call[c].name
    ELSE IF call[c].op \in {"status", "delete"} THEN call[c].cid
    ELSE call[c].cidString

C23_NamedThenDeletedByCid(c, d, e) ==
    /\ call[c].op = "storeDirectory" /\ call[c].name = "n1"
    /\ call[c].pc = "done" /\ call[c].out = "ok"
    /\ call[d].op = "delete" /\ call[d].svc = call[c].svc
    /\ call[d].cid = call[c].val /\ call[d].name = Null
    /\ call[d].pc = "done" /\ call[d].out = "ok"
    /\ call[e].op = "status" /\ call[e].svc = call[c].svc
    /\ call[e].cid = call[c].val /\ call[e].name = "n1"
    /\ call[e].pc = "done"

C23_AddressedByNameOrCid ==
    /\ [](\A c \in Slots :
            /\ (call[c].op = "storeDirectory" /\ up[c].state # "none")
               => up[c].key = C23_KeyOf(c)
            /\ (call[c].op \in {"status", "delete"} /\ call[c].pc \in {"send", "done"})
               => call[c].key = C23_KeyOf(c))
    /\ [](C23_NamedThenDeletedByCid(1, 2, 3)
            => /\ call[3].resp.found
               /\ call[3].resp = call[1].resp
               /\ (TypeOf(call[3].resp.len) = "number"
                     /\ TypeOf(call[3].resp.lm) # "undefined")
                  => (call[3].out = "ok" /\ call[3].rec.cid = call[1].resp.cid))
    /\ [][\A c \in Slots :
            (call[c].op = "delete" /\ call[c].pc = "send" /\ call'[c].pc = "done")
            => \A k \in DOMAIN remote \ {Target(call[c].head, C23_KeyOf(c))} :
                  k \in DOMAIN remote' /\ remote'[k] = remote[k]]_vars

\* A directory stored under a name, a delete by its cid, and a status call
\* by cid and name that returned the record.
C23_Witness ==
    /\ C23_NamedThenDeletedByCid(1, 2, 3)
    /\ call[3].out = "ok"
    /\ reqs[2].failed = 0
    /\ Target(call[1].head, "n1") \in DOMAIN remote

====
